---- MODULE Spec2Model ----
(***************************************************************************)
(* Model of the Landroid Cloud integration (custom_components/             *)
(* landroid_cloud): the API wrapper's capability detection                 *)
(* (api.py, LandroidAPI.check_features), the capability-gated service      *)
(* registration, the device status classifier, the schedule merge/encode   *)
(* and the config-field encoder (device_base.py).                          *)
(*                                                                         *)
(* Each component has its own specification over the shared variables:     *)
(*   SpecRegister  one check_features then register_services, every mask  *)
(*   SpecFeatures  sequences of check_features / register_services         *)
(*   SpecStatus    data_update against a changing device                   *)
(*   SpecSchedule  async_set_schedule                                      *)
(*   SpecConfig    async_config                                            *)
(***************************************************************************)
EXTENDS Integers, Sequences, FiniteSets, TLC

VARIABLES
    \* ---- LandroidAPI (api.py) ----
    features,           \* self.features: int bitmask
    features_loaded,    \* self.features_loaded
    services,           \* self.services: the operation names registered (dict keys)
    capable,            \* device.partymode_capable / ots_capable / torque_capable
    nchecks,            \* number of check_features calls made so far
    last_state,         \* self._last_state: the last recorded online state
    reloads,            \* config_entries.async_reload requests made so far
    signals,            \* dispatcher_send calls made so far
    \* ---- the vendor device handle read by data_update (WorxCloud) ----
    device,
    \* ---- LandroidCloudBaseEntity ----
    entity,
    timers,             \* pending async_call_later(15 min) fallback refreshes
    \* ---- device.schedules ----
    schedules,
    \* ---- the latest handler invocation: name, arguments, exception, commands ----
    call

vars == <<features, features_loaded, services, capable, nchecks,
          last_state, reloads, signals,
          device, entity, timers, schedules, call>>

(***************************************************************************)
(* Python values.  A nullable int is None or Some(n).                      *)
(***************************************************************************)
None == <<>>
Some(x) == <<x>>
IsNone(v) == v = None
Val(v) == v[1]

\* No handler has run yet.
NoCall == [op |-> "none"]

(***************************************************************************)
(* Bit operations on non-negative ints (Python's | and &).                 *)
(***************************************************************************)
RECURSIVE BitOr(_, _)
BitOr(a, b) ==
    IF a = 0 THEN b
    ELSE IF b = 0 THEN a
    ELSE (IF (a % 2 = 1) \/ (b % 2 = 1) THEN 1 ELSE 0) + 2 * BitOr(a \div 2, b \div 2)

RECURSIVE BitAnd(_, _)
BitAnd(a, b) ==
    IF a = 0 \/ b = 0 THEN 0
    ELSE (IF (a % 2 = 1) /\ (b % 2 = 1) THEN 1 ELSE 0) + 2 * BitAnd(a \div 2, b \div 2)

(***************************************************************************)
(* const.py (not among the source files): the capability flags, one bit    *)
(* each, and the service names.                                            *)
(***************************************************************************)
LandroidFeatureSupport ==
    [MOWER |-> 1, BUTTON |-> 2, SELECT |-> 4, SETZONE |-> 8, RESTART |-> 16,
     LOCK |-> 32, OTS |-> 64, EDGECUT |-> 128, PARTYMODE |-> 256,
     CONFIG |-> 512, SCHEDULES |-> 1024, TORQUE |-> 2048]

\* Largest bitmask passed to check_features.
MaxFeatureArg == 4095

\* Calls of check_features in one run.
MaxChecks == 2

SERVICE_EDGECUT == "edgecut"
SERVICE_LOCK == "lock"
SERVICE_PARTYMODE == "partymode"
SERVICE_SETZONE == "setzone"
SERVICE_RESTART == "restart"
SERVICE_CONFIG == "config"
SERVICE_OTS == "ots"
SERVICE_SCHEDULE == "schedule"
SERVICE_TORQUE == "torque"

(***************************************************************************)
(* LandroidAPI.check_features (api.py 58-79).                              *)
(***************************************************************************)
\* The bitmask computed from the argument and the device's capability flags.
CheckedFeatures(f, cap) ==
    LET f1 == IF cap.partymode THEN BitOr(f, LandroidFeatureSupport.PARTYMODE) ELSE f
        f2 == IF cap.ots
              THEN BitOr(BitOr(f1, LandroidFeatureSupport.EDGECUT),
                         LandroidFeatureSupport.OTS)
              ELSE f1
        f3 == IF cap.torque THEN BitOr(f2, LandroidFeatureSupport.TORQUE) ELSE f2
    IN f3

(***************************************************************************)
(* LandroidCloudBaseEntity.register_services (device_base.py 172-232).     *)
(***************************************************************************)
\* Variant: the LOCK test never succeeds.
Gate_drop_lock(f, bit) ==
    bit # LandroidFeatureSupport.LOCK /\ BitAnd(f, bit) # 0

\* if self.api.features & LandroidFeatureSupport.X
Gate(f, bit) == BitAnd(f, bit) # 0

\* The names the nine if-statements add for bitmask f, in source order.
GatedServices(f) ==
    (IF Gate(f, LandroidFeatureSupport.EDGECUT) THEN {SERVICE_EDGECUT} ELSE {})
    \cup (IF Gate(f, LandroidFeatureSupport.LOCK) THEN {SERVICE_LOCK} ELSE {})
    \cup (IF Gate(f, LandroidFeatureSupport.PARTYMODE) THEN {SERVICE_PARTYMODE} ELSE {})
    \cup (IF Gate(f, LandroidFeatureSupport.SETZONE) THEN {SERVICE_SETZONE} ELSE {})
    \cup (IF Gate(f, LandroidFeatureSupport.RESTART) THEN {SERVICE_RESTART} ELSE {})
    \cup (IF Gate(f, LandroidFeatureSupport.CONFIG) THEN {SERVICE_CONFIG} ELSE {})
    \cup (IF Gate(f, LandroidFeatureSupport.OTS) THEN {SERVICE_OTS} ELSE {})
    \cup (IF Gate(f, LandroidFeatureSupport.SCHEDULES) THEN {SERVICE_SCHEDULE} ELSE {})
    \cup (IF Gate(f, LandroidFeatureSupport.TORQUE) THEN {SERVICE_TORQUE} ELSE {})

\* api.services after register_services: entries are only ever added.
RegisteredServices(old, f) ==
    IF f = 0 THEN old ELSE old \cup GatedServices(f)

CallbackUnchanged == UNCHANGED <<last_state, reloads, signals>>
ApiUnchanged ==
    /\ UNCHANGED <<features, features_loaded, services, capable, nchecks>>
    /\ CallbackUnchanged
EntityUnchanged == UNCHANGED <<device, entity, timers>>

\* register_services: one call of the entity's method.
register_services ==
    /\ services' = RegisteredServices(services, features)
    /\ call' = [op |-> "register_services", pre_services |-> services]
    /\ UNCHANGED <<features, features_loaded, capable, nchecks>>
    /\ CallbackUnchanged
    /\ EntityUnchanged
    /\ UNCHANGED schedules

\* check_features(features, callback): callback is None or register_services.
check_features(f, cb) ==
    /\ features' = CheckedFeatures(f, capable)
    /\ features_loaded' = TRUE
    /\ services' = IF cb = "register_services"
                   THEN RegisteredServices(services, features')
                   ELSE services
    /\ nchecks' = nchecks + 1
    /\ call' = [op |-> "check_features", arg |-> f, callback |-> cb,
                pre_features |-> features, pre_loaded |-> features_loaded,
                pre_services |-> services]
    /\ UNCHANGED capable
    /\ CallbackUnchanged
    /\ EntityUnchanged
    /\ UNCHANGED schedules

\* The vendor SDK reports other capability flags for the device.
capability_change ==
    /\ \E c \in [partymode : BOOLEAN, ots : BOOLEAN, torque : BOOLEAN] :
          /\ c # capable
          /\ capable' = c
    /\ UNCHANGED <<features, features_loaded, services, nchecks, call>>
    /\ CallbackUnchanged
    /\ EntityUnchanged
    /\ UNCHANGED schedules

(***************************************************************************)
(* const.py (not among the source files): the entity states and the map    *)
(* from the vendor's status code to a state.                               *)
(***************************************************************************)
STATE_INITIALIZING == "initializing"
STATE_OFFLINE == "offline"
STATE_ERROR == "error"
STATE_RAINDELAY == "rain_delay"

STATE_MAP ==
    (0 :> "idle") @@ (1 :> "docked") @@ (2 :> "starting") @@ (3 :> "starting")
    @@ (4 :> "returning") @@ (5 :> "returning") @@ (6 :> "returning")
    @@ (7 :> "mowing") @@ (8 :> "error") @@ (9 :> "error") @@ (10 :> "error")
    @@ (11 :> "error") @@ (12 :> "mowing") @@ (30 :> "returning")
    @@ (31 :> "zoning") @@ (32 :> "edgecut") @@ (33 :> "starting")
    @@ (34 :> "paused")

(***************************************************************************)
(* The device handle's state, as the vendor SDK reports it.                *)
(*   error_id, status_id   master.error.id, master.status.id (nullable)    *)
(*   gps                   None, or Some(the set of keys of master.gps)    *)
(*   battery               None when master.battery has no "percent"       *)
(*   rssi, torque          a plain mapped field, None when absent or null  *)
(*   capabilities          the DeviceCapability flags master.capabilities  *)
(*                         has                                             *)
(*   mqtt_connected        master.mqtt.connected: the push channel is up   *)
(***************************************************************************)
ErrorIds == {None, Some(-2), Some(-1), Some(0), Some(1), Some(5)}
StatusIds == {None, Some(7), Some(99)}
GpsValues == {None, Some({"latitude"}), Some({"latitude", "longitude"})}
BatteryValues == {None, Some(80)}
RssiValues == {None, Some(-60)}
TorqueValues == {None, Some(50)}
CapabilitySets == {{}, {"ONE_TIME_SCHEDULE", "EDGE_CUT", "PARTY_MODE", "TORQUE"}}

DeviceFields ==
    [online |-> BOOLEAN, error_id |-> ErrorIds, status_id |-> StatusIds,
     gps |-> GpsValues, battery |-> BatteryValues, rssi |-> RssiValues,
     torque |-> TorqueValues, capabilities |-> CapabilitySets,
     mqtt_connected |-> BOOLEAN]

DeviceStates ==
    [online : BOOLEAN, error_id : ErrorIds, status_id : StatusIds,
     gps : GpsValues, battery : BatteryValues, rssi : RssiValues,
     torque : TorqueValues, capabilities : CapabilitySets,
     mqtt_connected : BOOLEAN]

(***************************************************************************)
(* LandroidCloudBaseEntity.data_update (device_base.py 295-379).           *)
(***************************************************************************)
\* self._available (340-344)
Available(d) ==
    IF ~IsNone(d.error_id) /\ Val(d.error_id) \in {-1, 0}
    THEN d.online
    ELSE ~IsNone(d.error_id)

\* Variant of the lookup without the except clause: the KeyError escapes.
LookupStatus_uncaught(status_id) ==
    IF ~IsNone(status_id) /\ Val(status_id) \in DOMAIN STATE_MAP
    THEN [raised |-> FALSE, state |-> STATE_MAP[Val(status_id)]]
    ELSE [raised |-> TRUE, state |-> STATE_INITIALIZING]

\* try: state = STATE_MAP[master.status.id]  except KeyError: initializing (355-358)
LookupStatus(status_id) ==
    IF ~IsNone(status_id) /\ Val(status_id) \in DOMAIN STATE_MAP
    THEN [raised |-> FALSE, state |-> STATE_MAP[Val(status_id)]]
    ELSE [raised |-> FALSE, state |-> STATE_INITIALIZING]

\* The if / elif / else chain that derives the state (345-358).
Classify(d) ==
    IF ~d.online /\ ~IsNone(d.error_id) /\ Val(d.error_id) \in {-1, 0}
    THEN [raised |-> FALSE, state |-> STATE_OFFLINE]
    ELSE IF ~IsNone(d.error_id) /\ Val(d.error_id) > 0
    THEN IF Val(d.error_id) > 0 /\ Val(d.error_id) # 5
         THEN [raised |-> FALSE, state |-> STATE_ERROR]
         ELSE IF Val(d.error_id) = 5
         THEN [raised |-> FALSE, state |-> STATE_RAINDELAY]
         ELSE [raised |-> FALSE, state |-> STATE_INITIALIZING]
    ELSE LookupStatus(d.status_id)

\* dict.update: the keys of new replace or extend those of old.
DictUpdate(old, new) ==
    [k \in DOMAIN old \cup DOMAIN new |-> IF k \in DOMAIN new THEN new[k] ELSE old[k]]

\* The entries of ATTR_MAP["default"]["state"] (attribute_map.py 6-29) for the
\* vendor fields the model carries: vendor field |-> display name.
ATTR_MAP == [gps |-> "gps_location", rssi |-> "rssi", torque |-> "wheel_torque"]

\* data["capabilities"] (313-322): the display names of the capabilities the
\* device has, in the order they are tested.
CapabilityNames(caps) ==
    (IF "ONE_TIME_SCHEDULE" \in caps THEN <<"One-Time-Schedule">> ELSE <<>>)
    \o (IF "EDGE_CUT" \in caps THEN <<"Edge cut">> ELSE <<>>)
    \o (IF "PARTY_MODE" \in caps THEN <<"Party Mode">> ELSE <<>>)
    \o (IF "TORQUE" \in caps THEN <<"Motor Torque">> ELSE <<>>)

\* The loop over the map (306-310): a field that is None is not copied.
CopiedAttributes(d) ==
    LET present == {p \in DOMAIN ATTR_MAP : ~IsNone(d[p])}
    IN [a \in {ATTR_MAP[p] : p \in present} |->
           d[CHOOSE p \in present : ATTR_MAP[p] = a]]

\* The attributes copied from the device in this refresh (303-332): None when
\* reading data["gps_location"] raises KeyError.
RefreshData(d) ==
    LET copied == CopiedAttributes(d)
        keys1 == DOMAIN copied \cup {"capabilities"}
        \* wheel_torque is removed when the device has no torque capability
        keys2 == IF "TORQUE" \notin d.capabilities THEN keys1 \ {"wheel_torque"}
                 ELSE keys1
        \* gps_location is removed when it lacks latitude or longitude
        keys3 == IF "latitude" \notin Val(d.gps) \/ "longitude" \notin Val(d.gps)
                 THEN keys2 \ {"gps_location"} ELSE keys2
    IN IF "gps_location" \notin keys2
       THEN None
       ELSE Some([k \in keys3 |->
                    IF k = "capabilities" THEN CapabilityNames(d.capabilities)
                    ELSE copied[k]])

\* Pending fallback refreshes.
MaxTimers == 1

data_update ==
    LET data == RefreshData(device)
        cls == Classify(device)
        attrs == DictUpdate(entity.attributes, Val(data))
    IN
    /\ IF IsNone(data)
       THEN \* KeyError at line 329: nothing after it runs
            /\ call' = [op |-> "data_update", raised |-> "KeyError: gps_location"]
            /\ UNCHANGED <<entity, timers>>
       ELSE IF cls.raised
       THEN \* the attributes and availability are stored, the state is not
            /\ call' = [op |-> "data_update", raised |-> "KeyError: status"]
            /\ entity' = [entity EXCEPT !.attributes = attrs,
                                         !.available = Available(device)]
            /\ UNCHANGED timers
       ELSE LET stored ==
                    [entity EXCEPT
                        !.attributes = attrs,
                        !.available = Available(device),
                        !.attr_state = cls.state,
                        !.battery_level = IF IsNone(device.battery)
                                          THEN @ ELSE device.battery]
            IN
            /\ entity' = stored
            /\ IF "mqtt" \notin DOMAIN attrs
               THEN \* KeyError at line 368
                    /\ call' = [op |-> "data_update", raised |-> "KeyError: mqtt"]
                    /\ UNCHANGED timers
               ELSE IF ~attrs["mqtt"].connected
               THEN \* async_call_later(hass, 15 min, async_get_state_from_api)
                    /\ timers < MaxTimers
                    /\ timers' = timers + 1
                    /\ call' = [op |-> "data_update", raised |-> "none"]
               ELSE /\ call' = [op |-> "data_update", raised |-> "none"]
                    /\ UNCHANGED timers
    /\ UNCHANGED device
    /\ ApiUnchanged
    /\ UNCHANGED schedules

\* async_get_state_from_api (381-386): a pending timer fires, device.update runs.
async_get_state_from_api ==
    /\ timers > 0
    /\ timers' = timers - 1
    /\ call' = [op |-> "async_get_state_from_api", commands |-> <<"update">>]
    /\ UNCHANGED <<device, entity>>
    /\ ApiUnchanged
    /\ UNCHANGED schedules

\* The vendor SDK changes one of the fields F of the device's state (push or
\* Web API).
device_change(F) ==
    /\ \E f \in F :
         \E v \in DeviceFields[f] :
            /\ v # device[f]
            /\ device' = [device EXCEPT ![f] = v]
    /\ call' = [op |-> "device_change"]
    /\ UNCHANGED <<entity, timers>>
    /\ ApiUnchanged
    /\ UNCHANGED schedules

\* The entity's attributes get a push-channel entry written outside data_update.
set_mqtt_attribute ==
    /\ \E c \in BOOLEAN :
          LET m == [k \in {"mqtt"} |-> [connected |-> c]]
          IN /\ DictUpdate(entity.attributes, m) # entity.attributes
             /\ entity' = [entity EXCEPT !.attributes = DictUpdate(@, m)]
    /\ call' = [op |-> "set_mqtt_attribute"]
    /\ UNCHANGED <<device, timers>>
    /\ ApiUnchanged
    /\ UNCHANGED schedules

(***************************************************************************)
(* Schedules.  const.py and utils/schedules.py are not among the source    *)
(* files: SCHEDULE_TO_DAY, SCHEDULE_TYPE_MAP, pass_thru and parseday are    *)
(* modelled from the specification.  A time of day "HH:MM" is modelled by   *)
(* its minute of the day.                                                  *)
(***************************************************************************)
\* One entry per weekday, in the order the vendor's schedule lists them; each
\* names its keys in the service data and its key in device.schedules.
SCHEDULE_TO_DAY ==
    [i \in 1..7 |->
        LET d == <<"sunday", "monday", "tuesday", "wednesday", "thursday",
                   "friday", "saturday">>[i]
        IN [start |-> <<d, "start">>, end |-> <<d, "end">>,
            boundary |-> <<d, "boundary">>, clear |-> d]]

DayNames == {SCHEDULE_TO_DAY[i].clear : i \in DOMAIN SCHEDULE_TO_DAY}

SCHEDULE_TYPE_MAP == [primary |-> "d", secondary |-> "dd"]

\* int(bool)
BoolToInt(b) == IF b THEN 1 ELSE 0

\* pass_thru(schedule): the seven days of a schedule, each encoded as
\* [start, duration, boundary], unmodified.
pass_thru(sched) ==
    [i \in DOMAIN SCHEDULE_TO_DAY |->
        LET cur == sched[SCHEDULE_TO_DAY[i].clear]
        IN <<cur.start, cur.duration, BoolToInt(cur.boundary)>>]

\* parseday(day, data): the entry built from the update's start and end time
\* and boundary flag of one day; the duration is the minutes from start to end.
parseday(day, data) ==
    <<data[day.start],
      data[day.end] - data[day.start],
      IF day.boundary \in DOMAIN data THEN BoolToInt(data[day.boundary]) ELSE 0>>

(***************************************************************************)
(* LandroidCloudMowerBase.async_set_schedule (device_base.py 588-632).     *)
(***************************************************************************)
\* Variant: the carried-over entry loses its boundary flag.
CurrentEntry_no_boundary(sched, schedule_type, day) ==
    LET cur == sched[schedule_type][day.clear]
    IN <<cur.start, cur.duration, 0>>

\* The existing entry of a day the update does not name (613-620).
CurrentEntry(sched, schedule_type, day) ==
    LET cur == sched[schedule_type][day.clear]
    IN <<cur.start, cur.duration, BoolToInt(cur.boundary)>>

\* Variant: a day with a start but no end time is carried over, not refused.
DayEntry_no_end_check(sched, schedule_type, day, data) ==
    IF day.start \in DOMAIN data /\ day.end \in DOMAIN data
    THEN [raised |-> FALSE, entry |-> parseday(day, data)]
    ELSE [raised |-> FALSE, entry |-> CurrentEntry(sched, schedule_type, day)]

\* One pass of the loop over SCHEDULE_TO_DAY (602-621).
DayEntry(sched, schedule_type, day, data) ==
    IF day.start \in DOMAIN data
    THEN IF day.end \notin DOMAIN data
         THEN [raised |-> TRUE, entry |-> <<>>]
         ELSE [raised |-> FALSE, entry |-> parseday(day, data)]
    ELSE [raised |-> FALSE, entry |-> CurrentEntry(sched, schedule_type, day)]

\* The loop: the entries appended so far, until a day raises.
RECURSIVE GenerateSchedule(_, _, _, _, _)
GenerateSchedule(sched, schedule_type, data, i, acc) ==
    IF i > Len(SCHEDULE_TO_DAY)
    THEN [raised |-> FALSE, entries |-> acc]
    ELSE LET r == DayEntry(sched, schedule_type, SCHEDULE_TO_DAY[i], data)
         IN IF r.raised
            THEN [raised |-> TRUE, day |-> SCHEDULE_TO_DAY[i].clear, entries |-> acc]
            ELSE GenerateSchedule(sched, schedule_type, data, i + 1,
                                  Append(acc, r.entry))

\* Variant: the schedule being set is passed through in place of the other.
PassedThru_same_kind(sched, schedule_type) ==
    IF schedule_type = "secondary"
    THEN [key |-> SCHEDULE_TYPE_MAP["primary"], value |-> pass_thru(sched["secondary"])]
    ELSE [key |-> SCHEDULE_TYPE_MAP["secondary"], value |-> pass_thru(sched["primary"])]

\* The schedule of the other kind put into the dataset (593-598, 623-628).
PassedThru(sched, schedule_type) ==
    IF schedule_type = "secondary"
    THEN [key |-> SCHEDULE_TYPE_MAP["primary"], value |-> pass_thru(sched["primary"])]
    ELSE [key |-> SCHEDULE_TYPE_MAP["secondary"], value |-> pass_thru(sched["secondary"])]

\* json.dumps({"sc": schedule}): the object handed to device.send.
SchedulePayload(sched, schedule_type, entries) ==
    LET other == PassedThru(sched, schedule_type)
        mine == SCHEDULE_TYPE_MAP[schedule_type]
    IN [sc |-> [k \in {mine, other.key} |->
                   IF k = mine THEN entries ELSE other.value]]

\* async_set_schedule(data): data["type"] is schedule_type, the rest is days.
async_set_schedule(schedule_type, days) ==
    LET gen == GenerateSchedule(schedules, schedule_type, days, 1, <<>>)
    IN
    /\ IF gen.raised
       THEN call' = [op |-> "async_set_schedule", type |-> schedule_type,
                     data |-> days,
                     raised |-> "HomeAssistantError: No end time specified",
                     day |-> gen.day, sent |-> <<>>]
       ELSE call' = [op |-> "async_set_schedule", type |-> schedule_type,
                     data |-> days, raised |-> "none", day |-> "",
                     sent |-> <<SchedulePayload(schedules, schedule_type,
                                                gen.entries)>>]
    /\ UNCHANGED schedules
    /\ ApiUnchanged
    /\ EntityUnchanged

(***************************************************************************)
(* Initial states: LandroidAPI.__init__ (api.py 27-56) and                 *)
(* LandroidCloudBaseEntity.__init__ (device_base.py 105-124).              *)
(***************************************************************************)
ApiInit ==
    /\ features = 0
    /\ features_loaded = FALSE
    /\ services = {}
    /\ nchecks = 0

EntityInit ==
    /\ entity = [attributes |-> <<>>, available |-> FALSE,
                 attr_state |-> STATE_INITIALIZING, battery_level |-> None]
    /\ timers = 0

\* The parts a specification does not exercise stay at one fixed value.
CapableIdle == capable = [partymode |-> FALSE, ots |-> FALSE, torque |-> FALSE]
DeviceIdle ==
    device = [online |-> FALSE, error_id |-> None, status_id |-> None,
              gps |-> None, battery |-> None, rssi |-> None, torque |-> None,
              capabilities |-> {}, mqtt_connected |-> TRUE]
SchedulesIdle == schedules = <<>>
\* The API object was constructed while the device was online and no push
\* callback has arrived.
CallbackIdle == last_state = TRUE /\ reloads = 0 /\ signals = 0

\* The bitmasks the platforms pass in sequences of calls: none, or one flag.
FeatureArgs == {0} \cup {LandroidFeatureSupport[k] : k \in DOMAIN LandroidFeatureSupport}

InitFeatures ==
    /\ ApiInit
    /\ capable \in [partymode : BOOLEAN, ots : BOOLEAN, torque : BOOLEAN]
    /\ EntityInit /\ DeviceIdle /\ SchedulesIdle
    /\ CallbackIdle
    /\ call = NoCall

NextFeatures ==
    \/ \E f \in FeatureArgs, cb \in {"none", "register_services"} :
          nchecks < MaxChecks /\ check_features(f, cb)
    \/ register_services
    \/ capability_change

SpecFeatures == InitFeatures /\ [][NextFeatures]_vars

NextRegister ==
    \/ \E f \in 0..MaxFeatureArg, cb \in {"none", "register_services"} :
          nchecks = 0 /\ check_features(f, cb)
    \/ register_services

InitRegister ==
    /\ ApiInit /\ CapableIdle
    /\ EntityInit /\ DeviceIdle /\ SchedulesIdle
    /\ CallbackIdle
    /\ call = NoCall

SpecRegister == InitRegister /\ [][NextRegister]_vars

InitStatus ==
    /\ ApiInit /\ CapableIdle
    /\ EntityInit
    /\ device \in {d \in DeviceStates : d.mqtt_connected}
    /\ SchedulesIdle
    /\ CallbackIdle
    /\ call = NoCall

\* The fields the status, availability and battery level are derived from,
\* and gps, which data_update reads on its way there.
StatusFields == {"online", "error_id", "status_id", "gps", "battery"}

NextStatus ==
    \/ data_update
    \/ async_get_state_from_api
    \/ device_change(StatusFields)
    \/ set_mqtt_attribute

SpecStatus == InitStatus /\ [][NextStatus]_vars

(***************************************************************************)
(* Repeated refreshes of a device that is online, without error and        *)
(* mowing, while its mapped fields, its capabilities and its push channel  *)
(* change.                                                                 *)
(***************************************************************************)
InitRefresh ==
    /\ ApiInit /\ CapableIdle
    /\ EntityInit
    /\ device \in {d \in DeviceStates :
                      /\ d.online
                      /\ d.error_id = Some(0)
                      /\ d.status_id = Some(7)
                      /\ d.battery = Some(80)}
    /\ SchedulesIdle
    /\ CallbackIdle
    /\ call = NoCall

RefreshFields == {"gps", "rssi", "torque", "capabilities", "mqtt_connected"}

NextRefresh ==
    \/ data_update
    \/ async_get_state_from_api
    \/ device_change(RefreshFields)
    \/ set_mqtt_attribute

SpecRefresh == InitRefresh /\ [][NextRefresh]_vars

\* The event loop runs a timer that is due: a pending fallback refresh fires.
SpecFallback == SpecRefresh /\ WF_vars(async_get_state_from_api)

(***************************************************************************)
(* async_set_schedule against a device with a primary and a secondary      *)
(* schedule.                                                               *)
(***************************************************************************)
DayIndex(d) == CHOOSE i \in DOMAIN SCHEDULE_TO_DAY : SCHEDULE_TO_DAY[i].clear = d

\* A week whose days all differ: 08:00 for 60 minutes on the first day, an
\* hour later and an hour longer each day, boundary cut every second day.
WeekA ==
    [d \in DayNames |->
        [start |-> 420 + 60 * DayIndex(d), duration |-> 60 * DayIndex(d),
         boundary |-> DayIndex(d) % 2 = 0]]

\* A week with the same entry every day: 08:00 to 09:00 with boundary cut.
WeekB == [d \in DayNames |-> [start |-> 480, duration |-> 60, boundary |-> TRUE]]

\* What a service call gives for one day: each of start, end and boundary is
\* absent (None) or present.
DayOptions ==
    {o \in [s : {None, Some(480)}, e : {None, Some(540)},
            b : {None, Some(TRUE), Some(FALSE)}] :
        ~(IsNone(o.s) /\ IsNone(o.e) /\ IsNone(o.b))}

\* Days named in one service call.
MaxUpdateDays == 2

\* The service data of the days in upd, keyed as SCHEDULE_TO_DAY names them.
DaysData(upd) ==
    LET keys == {<<d, "start">> : d \in {x \in DOMAIN upd : ~IsNone(upd[x].s)}}
                \cup {<<d, "end">> : d \in {x \in DOMAIN upd : ~IsNone(upd[x].e)}}
                \cup {<<d, "boundary">> : d \in {x \in DOMAIN upd : ~IsNone(upd[x].b)}}
    IN [k \in keys |->
           IF k[2] = "start" THEN Val(upd[k[1]].s)
           ELSE IF k[2] = "end" THEN Val(upd[k[1]].e)
           ELSE Val(upd[k[1]].b)]

InitSchedule ==
    /\ ApiInit /\ CapableIdle
    /\ EntityInit /\ DeviceIdle
    /\ schedules \in [primary : {WeekA, WeekB}, secondary : {WeekA, WeekB}]
    /\ CallbackIdle
    /\ call = NoCall

\* async_set_schedule leaves the device's schedules as they are, so every
\* call starts from an initial state: one call per behaviour covers them all.
NextSchedule ==
    /\ call = NoCall
    /\ \E schedule_type \in {"primary", "secondary"} :
      \E D \in {S \in SUBSET DayNames : Cardinality(S) <= MaxUpdateDays} :
        \E upd \in [D -> DayOptions] :
          async_set_schedule(schedule_type, DaysData(upd))

SpecSchedule == InitSchedule /\ [][NextSchedule]_vars

(***************************************************************************)
(* LandroidCloudMowerBase.async_config (device_base.py 690-768).           *)
(* A zone array arrives as a string such as "[15, 30, 45, 60]"; it is      *)
(* modelled by the pieces str.split(",") yields, each Some(n) when int()   *)
(* reads it as n and None when int() raises ValueError on it.              *)
(***************************************************************************)
\* [int(x) for x in s.replace("[", "").replace("]", "").split(",")] (718-724, 739-745)
ParseInts(tokens) ==
    IF \E i \in DOMAIN tokens : IsNone(tokens[i])
    THEN [raised |-> TRUE, sections |-> <<>>]
    ELSE [raised |-> FALSE, sections |-> [i \in DOMAIN tokens |-> Val(tokens[i])]]

\* sum(sections)
RECURSIVE Sum(_)
Sum(s) == IF s = <<>> THEN 0 ELSE Head(s) + Sum(Tail(s))

\* int(int(val) / 10): the quotient truncated towards zero
Share(val) == IF val >= 0 THEN val \div 10 ELSE -((-val) \div 10)

\* n copies of x (none for n <= 0)
RECURSIVE Repeat(_, _)
Repeat(x, n) == IF n <= 0 THEN <<>> ELSE <<x>> \o Repeat(x, n - 1)

\* for idx, val in enumerate(sections): append idx, share times (760-763)
RECURSIVE ZoneSlots(_, _)
ZoneSlots(sections, idx) ==
    IF idx >= Len(sections) THEN <<>>
    ELSE Repeat(idx, Share(sections[idx + 1])) \o ZoneSlots(sections, idx + 1)

\* The "mzv" list of an accepted probability array (756-763)
Mzv(sections) ==
    IF Sum(sections) = 0 THEN Repeat(0, 10) ELSE ZoneSlots(sections, 0)

ERR_NONE == "none"
ERR_VALUE == "ValueError: invalid literal for int()"
ERR_DISTANCES == "HomeAssistantError: Incorrect format for multizone distances array"
ERR_PROBABILITIES == "HomeAssistantError: Incorrect format for multizone probabilities array"
ERR_SUM == "HomeAssistantError: Sum of zone probabilities array MUST be 100 or 0 (disabled)"

\* Variant: the length of the distance array is not checked.
CheckDistances_any_length(sections) == ERR_NONE

\* if len(sections) != 4: raise (725-728)
CheckDistances(sections) ==
    IF Len(sections) # 4 THEN ERR_DISTANCES ELSE ERR_NONE

\* Variant: the sum of the probabilities is not checked.
CheckProbabilities_any_sum(sections) ==
    IF Len(sections) # 4 THEN ERR_PROBABILITIES ELSE ERR_NONE

\* the two checks of the probability array (746-754)
CheckProbabilities(sections) ==
    IF Len(sections) # 4 THEN ERR_PROBABILITIES
    ELSE IF Sum(sections) \notin {100, 0} THEN ERR_SUM
    ELSE ERR_NONE

\* tmpdata after the raindelay and timeextension blocks (692-710)
ConfigBase(data) ==
    LET rd == IF IsNone(data.raindelay) THEN <<>>
              ELSE [k \in {"rd"} |-> Val(data.raindelay)]
        sc == IF IsNone(data.timeextension) THEN <<>>
              ELSE [k \in {"sc"} |-> [p |-> Val(data.timeextension)]]
    IN DictUpdate(rd, sc)

\* The multizone_distances block (712-730): the exception, or tmpdata with "mz".
ConfigDistances(data, tmpdata) ==
    IF IsNone(data.multizone_distances)
    THEN [raised |-> ERR_NONE, tmpdata |-> tmpdata]
    ELSE LET parsed == ParseInts(Val(data.multizone_distances))
         IN IF parsed.raised
            THEN [raised |-> ERR_VALUE, tmpdata |-> tmpdata]
            ELSE IF CheckDistances(parsed.sections) # ERR_NONE
            THEN [raised |-> CheckDistances(parsed.sections), tmpdata |-> tmpdata]
            ELSE [raised |-> ERR_NONE,
                  tmpdata |-> DictUpdate(tmpdata, [k \in {"mz"} |-> parsed.sections])]

\* The multizone_probabilities block (732-763): the exception, or tmpdata with "mzv".
ConfigProbabilities(data, tmpdata) ==
    IF IsNone(data.multizone_probabilities)
    THEN [raised |-> ERR_NONE, tmpdata |-> tmpdata]
    ELSE LET parsed == ParseInts(Val(data.multizone_probabilities))
         IN IF parsed.raised
            THEN [raised |-> ERR_VALUE, tmpdata |-> tmpdata]
            ELSE IF CheckProbabilities(parsed.sections) # ERR_NONE
            THEN [raised |-> CheckProbabilities(parsed.sections), tmpdata |-> tmpdata]
            ELSE [raised |-> ERR_NONE,
                  tmpdata |-> DictUpdate(tmpdata, [k \in {"mzv"} |-> Mzv(parsed.sections)])]

async_config(data) ==
    LET dist == ConfigDistances(data, ConfigBase(data))
        prob == ConfigProbabilities(data, dist.tmpdata)
    IN
    /\ IF dist.raised # ERR_NONE
       THEN call' = [op |-> "async_config", data |-> data,
                     raised |-> dist.raised, sent |-> <<>>]
       ELSE IF prob.raised # ERR_NONE
       THEN call' = [op |-> "async_config", data |-> data,
                     raised |-> prob.raised, sent |-> <<>>]
       ELSE \* if tmpdata: device.send(json.dumps(tmpdata))
            call' = [op |-> "async_config", data |-> data, raised |-> ERR_NONE,
                     sent |-> IF DOMAIN prob.tmpdata = {} THEN <<>>
                              ELSE <<prob.tmpdata>>]
    /\ UNCHANGED schedules
    /\ ApiUnchanged
    /\ EntityUnchanged

\* Pieces of a zone array, at most.
MaxTokens == 5

DistanceTokens == {Some(15), None}
ProbabilityTokens == {Some(0), Some(25), None}

\* The non-empty sequences over S of at most MaxTokens pieces (split never
\* yields an empty list).
Arrays(S) == UNION {[1..n -> S] : n \in 1..MaxTokens}

ConfigData ==
    [raindelay : {None, Some(30)},
     timeextension : {None, Some(-20)},
     multizone_distances : {None} \cup {Some(a) : a \in Arrays(DistanceTokens)},
     multizone_probabilities : {None} \cup {Some(a) : a \in Arrays(ProbabilityTokens)}]

InitConfig ==
    /\ ApiInit /\ CapableIdle
    /\ EntityInit /\ DeviceIdle /\ SchedulesIdle
    /\ CallbackIdle
    /\ call = NoCall

\* async_config changes no state of its own, so every call starts from the
\* initial state: one call per behaviour covers them all.
NextConfig ==
    /\ call = NoCall
    /\ \E data \in ConfigData : async_config(data)

SpecConfig == InitConfig /\ [][NextConfig]_vars

(***************************************************************************)
(* LandroidAPI.receive_data (api.py 81-88): the callback the vendor SDK      *)
(* invokes when data arrives on the push channel.                          *)
(***************************************************************************)
\* Push callbacks in one run.
MaxCallbacks == 3

\* if not self._last_state and self.device.online (83)
ReloadNeeded(last, online) == ~last /\ online

\* Variant: the online state is not recorded when the reload is requested.
LastStateAfter_not_recorded(last, online) == last

\* self._last_state after the callback (83-84)
LastStateAfter(last, online) ==
    IF ReloadNeeded(last, online) THEN TRUE ELSE last

receive_data ==
    /\ signals < MaxCallbacks
    /\ last_state' = LastStateAfter(last_state, device.online)
    /\ reloads' = IF ReloadNeeded(last_state, device.online)
                  THEN reloads + 1 ELSE reloads
    /\ signals' = signals + 1
    /\ call' = [op |-> "receive_data", pre_last_state |-> last_state,
                online |-> device.online,
                reload |-> ReloadNeeded(last_state, device.online),
                dispatched |-> 1]
    /\ UNCHANGED <<features, features_loaded, services, capable, nchecks>>
    /\ EntityUnchanged
    /\ UNCHANGED schedules

(***************************************************************************)
(* LandroidAPI.async_refresh (api.py 90-158).  The outcome of              *)
(* device.update is "ok" or the class of the exception it raises.          *)
(***************************************************************************)
\* The exception classes of the vendor SDK the except clauses name, in source
\* order; APIException stands for any other exception of the vendor API.
VendorExceptions ==
    {"RequestError", "AuthorizationError", "ForbiddenError", "NotFoundError",
     "TooManyRequestsError", "InternalServerError", "ServiceUnavailableError",
     "APIException"}

\* What device.update can do: succeed, raise a vendor API exception, or raise
\* an exception that is none of the vendor API's.
UpdateOutcomes == {"ok"} \cup VendorExceptions \cup {"ConnectionError"}

\* Variant: the last except clause (APIException) is missing.
Caught_without_base(exc) == exc \in VendorExceptions \ {"APIException"}

\* Some except clause of async_refresh matches the exception (95-151).
Caught(exc) == exc \in VendorExceptions

\* What the caller of async_refresh gets: the exception that escapes, or the
\* value returned (None when the function runs off its end).
RefreshResult(outcome) ==
    IF outcome = "ok" THEN [raised |-> "none", returned |-> "None"]
    ELSE IF Caught(outcome) THEN [raised |-> "none", returned |-> "False"]
    ELSE [raised |-> outcome, returned |-> "nothing"]

async_refresh(outcome) ==
    /\ call' = [op |-> "async_refresh", outcome |-> outcome,
                raised |-> RefreshResult(outcome).raised,
                returned |-> RefreshResult(outcome).returned]
    \* a successful device.update brings the device's current online state
    /\ IF outcome = "ok"
       THEN \E v \in BOOLEAN : device' = [device EXCEPT !.online = v]
       ELSE UNCHANGED device
    /\ UNCHANGED <<entity, timers>>
    /\ ApiUnchanged
    /\ UNCHANGED schedules

(***************************************************************************)
(* The service handlers that invoke a capability-gated vendor command      *)
(* (device_base.py 641-688).  The outcome of the vendor call is "ok" or    *)
(* the class of the exception the vendor SDK raises.                       *)
(***************************************************************************)
OtsOutcomes == {"ok", "NoOneTimeScheduleError"}
PartymodeOutcomes == {"ok", "NoPartymodeError"}

\* data[ATTR_RUNTIME] of the ots service call, in minutes
OtsRuntimes == {30, 60}

\* try: device.ots(True, 0)  except NoOneTimeScheduleError: log (648-655)
async_edgecut(outcome) ==
    /\ call' = [op |-> "async_edgecut", command |-> <<"ots", TRUE, 0>>,
                outcome |-> outcome, raised |-> "none"]
    /\ UNCHANGED schedules
    /\ ApiUnchanged
    /\ EntityUnchanged

\* try: device.toggle_partymode(not enabled)  except NoPartymodeError: log (659-669)
async_toggle_partymode(partymode_enabled, outcome) ==
    /\ call' = [op |-> "async_toggle_partymode",
                command |-> <<"toggle_partymode", ~partymode_enabled>>,
                outcome |-> outcome, raised |-> "none"]
    /\ UNCHANGED schedules
    /\ ApiUnchanged
    /\ EntityUnchanged

\* device.ots(data[ATTR_BOUNDARY], data[ATTR_RUNTIME]), not in a try (679-688)
async_ots(boundary, runtime, outcome) ==
    /\ call' = [op |-> "async_ots", command |-> <<"ots", boundary, runtime>>,
                outcome |-> outcome,
                raised |-> IF outcome = "ok" THEN "none" ELSE outcome]
    /\ UNCHANGED schedules
    /\ ApiUnchanged
    /\ EntityUnchanged

\* LandroidAPI.__init__ (api.py 38-44) for a device that is online or not.
InitApi ==
    /\ ApiInit /\ CapableIdle
    /\ EntityInit
    /\ \E v \in BOOLEAN : device = [online |-> v, error_id |-> None,
                                   status_id |-> None, gps |-> None,
                                   battery |-> None, rssi |-> None,
                                   torque |-> None, capabilities |-> {},
                                   mqtt_connected |-> TRUE]
    /\ SchedulesIdle
    /\ last_state = device.online
    /\ reloads = 0
    /\ signals = 0
    /\ call = NoCall

NextApi ==
    \/ receive_data
    \/ \E outcome \in UpdateOutcomes : async_refresh(outcome)
    \/ device_change({"online"})
    \/ \E outcome \in OtsOutcomes : async_edgecut(outcome)
    \/ \E b \in BOOLEAN, outcome \in PartymodeOutcomes :
          async_toggle_partymode(b, outcome)
    \/ \E b \in BOOLEAN, r \in OtsRuntimes, outcome \in OtsOutcomes :
          async_ots(b, r, outcome)

SpecApi == InitApi /\ [][NextApi]_vars

(***************************************************************************)
(* Properties: status classification.                                      *)
(***************************************************************************)
\* data_update ran far enough to derive and store the state (line 362).
StateStored ==
    /\ call.op = "data_update"
    /\ call.raised \notin {"KeyError: gps_location", "KeyError: status"}

\* "no error": the error code is null, -1 or 0.
NoError(d) == IsNone(d.error_id) \/ Val(d.error_id) \in {-1, 0}

StatusMapped(d) == ~IsNone(d.status_id) /\ Val(d.status_id) \in DOMAIN STATE_MAP

\* The state the stated precedence order gives.
PrecedenceState(d) ==
    IF ~d.online /\ NoError(d) THEN STATE_OFFLINE
    ELSE IF ~IsNone(d.error_id) /\ Val(d.error_id) > 0 /\ Val(d.error_id) # 5
    THEN STATE_ERROR
    ELSE IF d.error_id = Some(5) THEN STATE_RAINDELAY
    ELSE IF StatusMapped(d) THEN STATE_MAP[Val(d.status_id)]
    ELSE STATE_INITIALIZING

\* C1: for every (online, error code, status code) the state data_update stores
\* is the one the precedence order gives: offline when not online with no error
\* (error code null, -1 or 0), else error for a code > 0 other than 5, else
\* rain-delay for code 5, else the mapped status, else initializing.
C1_StatusPrecedence ==
    StateStored => entity.attr_state = PrecedenceState(device)

\* Neither the offline rule nor an error rule of the chain applies.
NoOfflineOrErrorRule(d) ==
    /\ ~(~d.online /\ ~IsNone(d.error_id) /\ Val(d.error_id) \in {-1, 0})
    /\ ~(~IsNone(d.error_id) /\ Val(d.error_id) > 0)

ServiceBit ==
    (SERVICE_EDGECUT :> LandroidFeatureSupport.EDGECUT)
    @@ (SERVICE_LOCK :> LandroidFeatureSupport.LOCK)
    @@ (SERVICE_PARTYMODE :> LandroidFeatureSupport.PARTYMODE)
    @@ (SERVICE_SETZONE :> LandroidFeatureSupport.SETZONE)
    @@ (SERVICE_RESTART :> LandroidFeatureSupport.RESTART)
    @@ (SERVICE_CONFIG :> LandroidFeatureSupport.CONFIG)
    @@ (SERVICE_OTS :> LandroidFeatureSupport.OTS)
    @@ (SERVICE_SCHEDULE :> LandroidFeatureSupport.SCHEDULES)
    @@ (SERVICE_TORQUE :> LandroidFeatureSupport.TORQUE)

\* Bit b (a power of two) is set in f.
HasBit(f, b) == (f \div b) % 2 = 1

\* The operations whose bit is set in f.
OperationsOf(f) == {n \in DOMAIN ServiceBit : HasBit(f, ServiceBit[n])}

\* The latest handler ran register_services (directly or as the callback).
Registered ==
    \/ call.op = "register_services"
    \/ call.op = "check_features" /\ call.callback = "register_services"

\* C3: after any sequence of check_features / register_services calls, the
\* names in api.services after the last register_services are exactly the
\* operations whose bit is set in the current api.features.
C3_ServicesFunctionOfFeatures ==
    Registered => services = OperationsOf(features)

\* C4: starting from an empty services map, register_services adds a name if
\* and only if its own bit is set in api.features; the nine bits gate nine
\* distinct names, and no other bit decides whether a name is added.
C4_EachBitGatesOneService ==
    (Registered /\ call.pre_services = {})
    => /\ \A n \in DOMAIN ServiceBit : n \in services <=> HasBit(features, ServiceBit[n])
       /\ services \subseteq DOMAIN ServiceBit
       /\ Cardinality(DOMAIN ServiceBit) = 9
       /\ Cardinality({ServiceBit[n] : n \in DOMAIN ServiceBit}) = 9

\* LOCK, SETZONE and the non-service flag MOWER are set: from the empty map
\* register_services added lock and setzone and nothing else.
C4_Witness ==
    /\ call.op = "register_services"
    /\ call.pre_services = {}
    /\ features = 41
    /\ services = {SERVICE_LOCK, SERVICE_SETZONE}

\* C5: once check_features has run (features_loaded), no later step changes
\* api.features.
C5_FeaturesImmutable ==
    [][features_loaded => features' = features]_vars

(***************************************************************************)
(* Properties: schedule merge.                                             *)
(***************************************************************************)
OtherKind(k) == IF k = "primary" THEN "secondary" ELSE "primary"

\* An existing entry as transmitted: start, duration, boundary flag as 0 / 1.
Existing(kind, i) ==
    LET cur == schedules[kind][SCHEDULE_TO_DAY[i].clear]
    IN <<cur.start, cur.duration, IF cur.boundary THEN 1 ELSE 0>>

Transmitted == call.op = "async_set_schedule" /\ call.raised = "none"

\* C6: async_set_schedule of kind K transmits one payload whose schedule for K
\* has seven entries in weekday order: a day whose start and end time are in
\* the update holds the entry built from the update, a day without a start
\* time in the update holds the device's existing (start, duration, boundary).
C6_PartialUpdateMerged ==
    Transmitted =>
        /\ Len(call.sent) = 1
        /\ LET list == call.sent[1].sc[SCHEDULE_TYPE_MAP[call.type]]
           IN /\ Len(list) = 7
              /\ \A i \in 1..7 :
                    LET day == SCHEDULE_TO_DAY[i]
                    IN IF day.start \in DOMAIN call.data
                       THEN /\ day.end \in DOMAIN call.data
                            /\ list[i] = parseday(day, call.data)
                            /\ list[i][1] = call.data[day.start]
                       ELSE list[i] = Existing(call.type, i)

\* A primary update naming only monday (08:00 to 09:00) on WeekA: monday is
\* overwritten, sunday and tuesday are carried over.
C6_Witness ==
    /\ Transmitted
    /\ call.type = "primary"
    /\ schedules.primary = WeekA
    /\ DOMAIN call.data = {<<"monday", "start">>, <<"monday", "end">>}
    /\ call.sent[1].sc.d[1] = <<480, 60, 0>>
    /\ call.sent[1].sc.d[2] = <<480, 60, 0>>
    /\ call.sent[1].sc.d[3] = <<600, 180, 0>>
    /\ call.sent[1].sc.d[4] = <<660, 240, 1>>

\* C7: the payload of an update of one kind holds, under the other kind's key,
\* the device's existing schedule of the other kind, unmodified, whatever days
\* the update names; the payload holds the two kinds and nothing else.
C7_OtherKindPassedThrough ==
    Transmitted =>
        LET other == OtherKind(call.type)
            sc == call.sent[1].sc
        IN /\ DOMAIN sc = {SCHEDULE_TYPE_MAP["primary"], SCHEDULE_TYPE_MAP["secondary"]}
           /\ sc[SCHEDULE_TYPE_MAP[other]] = [i \in 1..7 |-> Existing(other, i)]

\* A secondary update naming a day on a device whose primary is WeekA and
\* secondary is WeekB: the payload's primary part is WeekA.
C7_Witness ==
    /\ Transmitted
    /\ call.type = "secondary"
    /\ schedules.primary = WeekA /\ schedules.secondary = WeekB
    /\ <<"friday", "start">> \in DOMAIN call.data
    /\ call.sent[1].sc.d = [i \in 1..7 |-> Existing("primary", i)]
    /\ call.sent[1].sc.dd[6] = <<480, 60, 0>>

\* The update names a start time without an end time for some day.
MissingEnd(data) ==
    \E i \in DOMAIN SCHEDULE_TO_DAY :
        /\ SCHEDULE_TO_DAY[i].start \in DOMAIN data
        /\ SCHEDULE_TO_DAY[i].end \notin DOMAIN data

\* C8: when the update names a start time without an end time for any day,
\* async_set_schedule raises HomeAssistantError and device.send is not
\* called, for either kind and whatever the other days of the update hold.
C8_MissingEndAborts ==
    (call.op = "async_set_schedule" /\ MissingEnd(call.data))
    => /\ call.raised = "HomeAssistantError: No end time specified"
       /\ call.sent = <<>>

\* Sunday has start and end, wednesday only a start: refused for wednesday,
\* nothing sent.
C8_Witness ==
    /\ call.op = "async_set_schedule"
    /\ call.type = "secondary"
    /\ DOMAIN call.data = {<<"sunday", "start">>, <<"sunday", "end">>,
                           <<"wednesday", "start">>}
    /\ call.raised = "HomeAssistantError: No end time specified"
    /\ call.day = "wednesday"
    /\ call.sent = <<>>

(***************************************************************************)
(* Properties: config-field encoder.                                       *)
(***************************************************************************)
\* Every piece of the array is an integer literal.
AllInts(tokens) == \A i \in DOMAIN tokens : ~IsNone(tokens[i])

IntsOf(tokens) == [i \in DOMAIN tokens |-> Val(tokens[i])]

\* The array holds exactly 4 integers.
FourInts(tokens) == AllInts(tokens) /\ Len(tokens) = 4

\* C9: a zone-distance array that does not hold exactly 4 integers is refused
\* with an error raised by async_config itself and nothing is sent, also when
\* the call carries raindelay or timeextension; an array of integers of
\* another length gets the "Incorrect format" error (a piece that is no
\* integer fails in int() with ValueError before the length is looked at).
C9_BadDistancesRejected ==
    (/\ call.op = "async_config"
     /\ ~IsNone(call.data.multizone_distances)
     /\ ~FourInts(Val(call.data.multizone_distances)))
    => /\ call.sent = <<>>
       /\ call.raised =
            IF AllInts(Val(call.data.multizone_distances))
            THEN ERR_DISTANCES ELSE ERR_VALUE

\* Three distances together with raindelay and timeextension: format error,
\* nothing sent.
C9_Witness ==
    /\ call.op = "async_config"
    /\ call.data.raindelay = Some(30)
    /\ call.data.timeextension = Some(-20)
    /\ call.data.multizone_distances = Some(<<Some(15), Some(15), Some(15)>>)
    /\ IsNone(call.data.multizone_probabilities)
    /\ call.raised = ERR_DISTANCES
    /\ call.sent = <<>>

\* The probability array holds exactly 4 integers whose sum is 100 or 0.
GoodProbabilities(tokens) ==
    FourInts(tokens) /\ Sum(IntsOf(tokens)) \in {100, 0}

\* The distance array, when given, passes its own checks.
DistancesPass(data) ==
    IsNone(data.multizone_distances) \/ FourInts(Val(data.multizone_distances))

\* C10: async_config accepts a zone-probability array only if it holds
\* exactly 4 integers whose sum is 100 or 0; for any other array an error is
\* raised and nothing is sent: "Incorrect format" for integers of another
\* length, the sum error for 4 integers of another sum (ValueError from int()
\* for a piece that is no integer).
C10_BadProbabilitiesRejected ==
    (call.op = "async_config" /\ ~IsNone(call.data.multizone_probabilities))
    => LET tokens == Val(call.data.multizone_probabilities)
       IN /\ call.raised = ERR_NONE => GoodProbabilities(tokens)
          /\ ~GoodProbabilities(tokens) =>
                /\ call.raised # ERR_NONE
                /\ call.sent = <<>>
                /\ DistancesPass(call.data) =>
                      call.raised =
                        IF ~AllInts(tokens) THEN ERR_VALUE
                        ELSE IF Len(tokens) # 4 THEN ERR_PROBABILITIES
                        ELSE ERR_SUM

\* Probabilities 25, 25, 25, 0 (sum 75) together with a valid raindelay and
\* valid distances: the sum error, nothing sent.
C10_Witness ==
    /\ call.op = "async_config"
    /\ call.data.raindelay = Some(30)
    /\ call.data.multizone_distances = Some(<<Some(15), Some(15), Some(15), Some(15)>>)
    /\ call.data.multizone_probabilities = Some(<<Some(25), Some(25), Some(25), Some(0)>>)
    /\ call.raised = ERR_SUM
    /\ call.sent = <<>>

\* The number of slots of the list that hold zone index x.
CountOf(list, x) == Cardinality({i \in DOMAIN list : list[i] = x})

\* async_config accepted a call that carries a zone-probability array.
ProbabilitiesAccepted ==
    /\ call.op = "async_config"
    /\ call.raised = ERR_NONE
    /\ ~IsNone(call.data.multizone_probabilities)

\* C11: for every accepted zone-probability array the transmitted "mzv" list
\* has exactly 10 entries: ten zeros when the sum is 0, and otherwise zone
\* index i fills its percentage / 10 of the ten slots, rounded down or up.
C11_TenSlotAllocation ==
    ProbabilitiesAccepted =>
        LET sections == IntsOf(Val(call.data.multizone_probabilities))
            mzv == call.sent[1].mzv
        IN /\ Len(mzv) = 10
           /\ Sum(sections) = 0 => \A i \in DOMAIN mzv : mzv[i] = 0
           /\ Sum(sections) # 0 =>
                \A idx \in 0..3 :
                    CountOf(mzv, idx) \in {sections[idx + 1] \div 10,
                                           sections[idx + 1] \div 10 + 1}

(***************************************************************************)
(* Properties: refresh boundary, vendor commands, push callback.           *)
(***************************************************************************)
\* C12: whenever device.update raises a malformed-request, unauthorized,
\* forbidden, not-found, rate-limited, server-error, service-unavailable or
\* other vendor API exception, async_refresh raises nothing to its caller and
\* returns False.
C12_TransportErrorsCaught ==
    (call.op = "async_refresh" /\ call.outcome \in VendorExceptions)
    => /\ call.raised = "none"
       /\ call.returned = "False"

\* device.update raised an exception of the vendor API that none of the seven
\* specific clauses names: async_refresh returned False.
C12_Witness ==
    /\ call.op = "async_refresh"
    /\ call.outcome = "APIException"
    /\ call.raised = "none"
    /\ call.returned = "False"

\* C13: when the vendor command behind async_edgecut, async_ots or
\* async_toggle_partymode raises one-time-schedule-unsupported or
\* party-mode-unsupported, the handler returns normally: nothing is raised to
\* its caller.
C13_CapabilityMismatchNoOp ==
    (/\ call.op \in {"async_edgecut", "async_ots", "async_toggle_partymode"}
     /\ call.outcome \in {"NoOneTimeScheduleError", "NoPartymodeError"})
    => call.raised = "none"

\* C17: a reload is requested only by a callback that finds the device online
\* while the recorded online state is false; the recorded state never goes
\* back to false, so at most one reload is ever requested, and none when the
\* device was online at construction; every callback dispatches the update
\* signal exactly once.
C17_ReloadAtMostOnce ==
    /\ [](/\ reloads <= 1
          /\ reloads = 1 => last_state
          /\ call.op = "receive_data" =>
                /\ call.reload <=> (~call.pre_last_state /\ call.online)
                /\ call.dispatched = 1)
    /\ [][/\ last_state => last_state'
          /\ reloads' # reloads =>
                /\ call'.op = "receive_data"
                /\ ~last_state /\ device.online
                /\ reloads' = reloads + 1
          /\ call'.op = "receive_data" => signals' = signals + 1
          /\ call'.op # "receive_data" => signals' = signals]_vars
    /\ (last_state => [](reloads = 0))

\* The device was offline at construction, came online, and the second
\* callback after that found the state already recorded: one reload, three
\* signals.
C17_Witness ==
    /\ call.op = "receive_data"
    /\ call.pre_last_state /\ call.online /\ ~call.reload
    /\ reloads = 1
    /\ signals = 3

(***************************************************************************)
(* Properties: attributes and the fallback refresh.                        *)
(***************************************************************************)
\* data_update ran as far as self._attributes.update(data) (line 334).
AttributesUpdated ==
    call.op = "data_update" /\ call.raised # "KeyError: gps_location"

\* C14: after every data_update that updates the attributes, in any sequence
\* of refreshes, an entry of the attribute map whose vendor field is null on
\* the device has no value under its display name in the entity's attributes,
\* and no mapped attribute is null.
C14_AbsentFieldsOmitted ==
    AttributesUpdated =>
        \A p \in DOMAIN ATTR_MAP :
            /\ IsNone(device[p]) => ATTR_MAP[p] \notin DOMAIN entity.attributes
            /\ ATTR_MAP[p] \in DOMAIN entity.attributes =>
                  ~IsNone(entity.attributes[ATTR_MAP[p]])

\* C15: a data_update that gets as far as the push-channel test (line 368)
\* while the device's push channel is disconnected schedules one fallback
\* refresh, which eventually runs (async_get_state_from_api invokes
\* device.update); one that runs while the push channel is connected
\* schedules none.
C15_FallbackWhenDisconnected ==
    /\ [][(call'.op = "data_update" /\ call'.raised # "KeyError: gps_location")
            => IF device.mqtt_connected THEN timers' = timers
               ELSE timers' = timers + 1]_vars
    /\ (AttributesUpdated /\ ~device.mqtt_connected)
          ~> (call.op = "async_get_state_from_api")

\* C18: data_update raises nothing for any device state, also when gps is
\* null and when the attributes hold no "mqtt" entry, and it stores the
\* availability, the state and the battery level.
C18_DataUpdateNeverRaises ==
    call.op = "data_update" =>
        /\ call.raised = "none"
        /\ entity.available = Available(device)
        /\ entity.attr_state = Classify(device).state
        /\ ~IsNone(device.battery) => entity.battery_level = device.battery

(***************************************************************************)
(* Properties: idempotence of the schedule merge.                          *)
(***************************************************************************)
\* The update names at least one day, and every day it names has the start
\* and end time of the device's current schedule of that kind; a boundary
\* flag it carries is the current one as well.
UpdateEqualsCurrent(kind, data) ==
    /\ \E i \in DOMAIN SCHEDULE_TO_DAY : SCHEDULE_TO_DAY[i].start \in DOMAIN data
    /\ \A i \in DOMAIN SCHEDULE_TO_DAY :
          LET day == SCHEDULE_TO_DAY[i]
              cur == schedules[kind][day.clear]
          IN /\ day.start \in DOMAIN data =>
                  /\ day.end \in DOMAIN data
                  /\ data[day.start] = cur.start
                  /\ data[day.end] = cur.start + cur.duration
             /\ day.boundary \in DOMAIN data => data[day.boundary] = cur.boundary

\* C16: when every day the update names has the start and end time of the
\* device's current schedule of kind K, the schedule transmitted for K is the
\* current one entry for entry (start, duration, boundary flag), and the
\* other kind is transmitted unchanged.
C16_MergeIdempotent ==
    (Transmitted /\ UpdateEqualsCurrent(call.type, call.data))
    => LET sc == call.sent[1].sc
       IN /\ sc[SCHEDULE_TYPE_MAP[call.type]]
                = [i \in 1..7 |-> Existing(call.type, i)]
          /\ sc[SCHEDULE_TYPE_MAP[OtherKind(call.type)]]
                = [i \in 1..7 |-> Existing(OtherKind(call.type), i)]

====
